---- MODULE Spec2Model ----
(***************************************************************************)
(* Model of env_state_controller.py: the decaying token-weight store       *)
(* (_TokenMemoryShim), the thresholded hypotheses built on it              *)
(* (EnvironmentStateTracker), the three-branch PDF policy                  *)
(* (RelationalController) and the demo run (demo_environment_awareness).   *)
(*                                                                         *)
(* Numbers.  The code computes on Python floats.  The model computes on    *)
(* exact non-negative decimals: <<n, k>> stands for n / 10^k, kept in the  *)
(* normal form where n has no trailing zero unless k = 0.  Every decay,    *)
(* intensity and threshold used below is a short decimal, so each weight   *)
(* the model reaches is the exact real value of the expression the code    *)
(* evaluates; the code's value is that number rounded to binary64.         *)
(***************************************************************************)
EXTENDS Integers, Sequences, FiniteSets, TLC

\* decay, threshold : the tracker's two parameters
\* token_weights    : the dict of the store
\* ret              : what the last call returned
\* touched          : the tokens the last call passed to update_weights
\* nObs             : observe() calls made so far
\* passes           : decay passes the repeating caller of LiveSpec has made,
\*                    modulo 2 (a pass with decay 1.0 changes nothing else)
\* pc               : "free" for a free caller, else the demo's next statement
VARIABLES decay, threshold, token_weights, ret, nObs, passes, pc, touched

vars == <<decay, threshold, token_weights, ret, nObs, passes, pc, touched>>

(***************************************************************************)
(* Bounds of the model.                                                    *)
(***************************************************************************)
\* observe() calls made by a free caller in one behaviour
MaxObserve == 2
\* decimal digits a weight's numerator may have (keeps TLC's integers exact)
MaxDigits == 4

(***************************************************************************)
(* Exact decimal arithmetic.                                               *)
(***************************************************************************)
RECURSIVE Pow10(_)
Pow10(e) == IF e = 0 THEN 1 ELSE 10 * Pow10(e - 1)

RECURSIVE NumDigits(_)
NumDigits(n) == IF n < 10 THEN 1 ELSE 1 + NumDigits(n \div 10)

RECURSIVE Norm(_)
Norm(x) ==
    IF x[1] = 0 THEN <<0, 0>>
    ELSE IF x[2] > 0 /\ x[1] % 10 = 0 THEN Norm(<<x[1] \div 10, x[2] - 1>>)
    ELSE x

Max(a, b) == IF a >= b THEN a ELSE b

\* the float literal 0.0 (the default of dict.get in the code)
Zero == <<0, 0>>

\* a * b
Mul(a, b) == Norm(<<a[1] * b[1], a[2] + b[2]>>)

\* a + b
Add(a, b) ==
    LET k == Max(a[2], b[2])
    IN  Norm(<<a[1] * Pow10(k - a[2]) + b[1] * Pow10(k - b[2]), k>>)

\* decimal order of magnitude of a positive number: 10^(Mag-1) <= a < 10^Mag
Mag(a) == NumDigits(a[1]) - a[2]

\* a < b
Less(a, b) ==
    IF b[1] = 0 THEN FALSE
    ELSE IF a[1] = 0 THEN TRUE
    ELSE IF Mag(a) # Mag(b) THEN Mag(a) < Mag(b)
    ELSE LET k == Max(a[2], b[2])
         IN  a[1] * Pow10(k - a[2]) < b[1] * Pow10(k - b[2])

\* a >= b
GreaterEq(a, b) == ~Less(a, b)

\* the numerators of a * b and of a + b have at most MaxDigits digits
FitsMul(a, b) == b[1] = 0 \/ a[1] <= (Pow10(MaxDigits) - 1) \div b[1]
FitsAdd(a, b) ==
    LET k == Max(a[2], b[2])
    IN  /\ NumDigits(a[1]) + (k - a[2]) <= MaxDigits
        /\ NumDigits(b[1]) + (k - b[2]) <= MaxDigits
        /\ a[1] * Pow10(k - a[2]) + b[1] * Pow10(k - b[2]) < Pow10(MaxDigits)

(***************************************************************************)
(* Inputs.                                                                 *)
(***************************************************************************)
Tokens == {"Windows", "PowerShell", "PandocInstalled", "PDFExportSuccess"}

\* the pruning epsilon 1e-6 of decay_weights
Epsilon == <<1, 6>>

\* decay factors a free caller constructs a tracker with: 0.01, 0.9, 1.0
One == <<1, 0>>
DecaySet == {<<1, 2>>, <<9, 1>>, One}

\* thresholds: 0.6 (the default) and 0.8
ThresholdSet == {<<6, 1>>, <<8, 1>>}

\* intensities of a free caller's observations: 0.6 and 1.0 (the default)
Intensities == {<<6, 1>>, One}

\* token lists of a free caller's observations (a Python list: order and
\* repetition are the caller's)
Batches ==
    { <<>>, <<"Windows">>, <<"PowerShell">>, <<"PandocInstalled">>,
      <<"Windows", "PowerShell">>, <<"PowerShell", "Windows">>,
      <<"PowerShell", "PowerShell">> }

(***************************************************************************)
(* The dict token_weights: a sequence of <<key, value>> items in insertion *)
(* order, keys distinct.                                                   *)
(***************************************************************************)
Keys(d) == {d[i][1] : i \in 1..Len(d)}

\* dict.get(key, default)
DictGet(d, key, default) ==
    IF key \in Keys(d)
    THEN LET i == CHOOSE j \in 1..Len(d) : d[j][1] = key IN d[i][2]
    ELSE default

\* d[key] = value: in place for a key already there, appended otherwise
DictSet(d, key, value) ==
    IF key \in Keys(d)
    THEN [i \in 1..Len(d) |-> IF d[i][1] = key THEN <<key, value>> ELSE d[i]]
    ELSE Append(d, <<key, value>>)

\* the mapping itself, without the order: what == compares on Python dicts
AsMapping(d) == {d[i] : i \in 1..Len(d)}

\* a - b
Sub(a, b) ==
    LET k == Max(a[2], b[2])
    IN  Norm(<<a[1] * Pow10(k - a[2]) - b[1] * Pow10(k - b[2]), k>>)

\* update_weights with the intensity subtracted: prev * decay - intensity
RECURSIVE update_weights_sub(_, _, _, _)
update_weights_sub(tw, dec, tokens, intensity) ==
    IF tokens = <<>> THEN tw
    ELSE LET t == Head(tokens)
             prev == DictGet(tw, t, Zero)
         IN  update_weights_sub(DictSet(tw, t, Sub(Mul(prev, dec), intensity)),
                                dec, Tail(tokens), intensity)

\* update_weights that forgets the previous weight: intensity alone
RECURSIVE update_weights_overwrite(_, _, _, _)
update_weights_overwrite(tw, dec, tokens, intensity) ==
    IF tokens = <<>> THEN tw
    ELSE update_weights_overwrite(DictSet(tw, Head(tokens), intensity),
                                  dec, Tail(tokens), intensity)

\* update_weights that decays the sum: (prev + intensity) * decay
RECURSIVE update_weights_decay_after(_, _, _, _)
update_weights_decay_after(tw, dec, tokens, intensity) ==
    IF tokens = <<>> THEN tw
    ELSE LET t == Head(tokens)
             prev == DictGet(tw, t, Zero)
         IN  update_weights_decay_after(
                 DictSet(tw, t, Mul(Add(prev, intensity), dec)),
                 dec, Tail(tokens), intensity)

\* update_weights without the decay: prev + intensity
RECURSIVE update_weights_nodecay(_, _, _, _)
update_weights_nodecay(tw, dec, tokens, intensity) ==
    IF tokens = <<>> THEN tw
    ELSE LET t == Head(tokens)
             prev == DictGet(tw, t, Zero)
         IN  update_weights_nodecay(DictSet(tw, t, Add(prev, intensity)),
                                    dec, Tail(tokens), intensity)

\* update_weights that reads prev once, before the loop, from the first
\* token of the list
UpdateFromFirst(tw, dec, tokens, intensity, prev) ==
    LET RECURSIVE loop(_, _)
        loop(d, rest) ==
            IF rest = <<>> THEN d
            ELSE loop(DictSet(d, Head(rest), Add(Mul(prev, dec), intensity)),
                      Tail(rest))
    IN  loop(tw, tokens)

update_weights_prev_hoisted(tw, dec, tokens, intensity) ==
    IF tokens = <<>> THEN tw
    ELSE UpdateFromFirst(tw, dec, tokens, intensity, DictGet(tw, Head(tokens), Zero))

\* _TokenMemoryShim.update_weights
RECURSIVE update_weights(_, _, _, _)
update_weights(tw, dec, tokens, intensity) ==
    IF tokens = <<>> THEN tw
    ELSE LET t == Head(tokens)
             prev == DictGet(tw, t, Zero)
         IN  update_weights(DictSet(tw, t, Add(Mul(prev, dec), intensity)),
                            dec, Tail(tokens), intensity)

\* decay_weights that computes the product without storing it
decay_weights_nowrite(tw, dec) ==
    SelectSeq(tw, LAMBDA item : ~Less(Mul(item[2], dec), Epsilon))

\* decay_weights that also deletes a product equal to 1e-6
decay_weights_le(tw, dec) ==
    SelectSeq([i \in 1..Len(tw) |-> <<tw[i][1], Mul(tw[i][2], dec)>>],
              LAMBDA item : Less(Epsilon, item[2]))

\* _TokenMemoryShim.decay_weights: the loop visits every key once, in the
\* dict's order (list(keys()) is a copy), multiplies its weight by decay and
\* deletes the entry if the product is below 1e-6
decay_weights(tw, dec) ==
    SelectSeq([i \in 1..Len(tw) |-> <<tw[i][1], Mul(tw[i][2], dec)>>],
              LAMBDA item : ~Less(item[2], Epsilon))

\* get_weights that returns the store's own dict
get_weights_alias(tw) == [aliased |-> TRUE, items |-> tw]

\* _TokenMemoryShim.get_weights: a new dict with the same items
get_weights(tw) == [aliased |-> FALSE, items |-> tw]

\* hypothesis with a strict comparison
hypothesis_strict(tw, th, key) ==
    Less(th, DictGet(get_weights(tw).items, key, Zero))

\* EnvironmentStateTracker.hypothesis
hypothesis(tw, th, key) ==
    GreaterEq(DictGet(get_weights(tw).items, key, Zero), th)

\* json.dumps(mapping, indent=2): one "key": value line per item, in the
\* dict's order
json_dumps(items) == [i \in 1..Len(items) |-> <<"line", items[i][1], items[i][2]>>]

\* json.loads of such a text
json_loads(lines) == [i \in 1..Len(lines) |-> <<lines[i][2], lines[i][3]>>]

\* EnvironmentStateTracker.to_json
to_json(tw) == json_dumps(get_weights(tw).items)

\* brief_path_md[:-3]
StripLast3(path) == SubSeq(path, 1, Len(path) - 3)

\* policy_for_pdf_request whose second branch does not ask for PowerShell
policy_install_without_pwsh(tw, th, brief_path_md, engine) ==
    LET has_windows == GreaterEq(DictGet(tw, "Windows", Zero), th)
        has_pwsh    == GreaterEq(DictGet(tw, "PowerShell", Zero), th)
        has_pandoc  == GreaterEq(DictGet(tw, "PandocInstalled", Zero), th)
    IN  IF has_windows /\ has_pwsh /\ has_pandoc
        THEN [assumption |-> "Windows + PowerShell + Pandoc present",
              action     |-> "Provide direct conversion command",
              command    |-> "pandoc \"" \o brief_path_md \o "\" -o \""
                             \o StripLast3(brief_path_md) \o ".pdf\" --pdf-engine="
                             \o engine]
        ELSE IF has_windows /\ ~has_pandoc
        THEN [assumption |-> "Windows + PowerShell; Pandoc uncertain",
              action     |-> "Offer install path then conversion command",
              command    |-> "winget install Pandoc.Pandoc"]
        ELSE [assumption |-> "Environment uncertain",
              action     |-> "Ask one clarifying question to establish environment",
              command    |-> "Do you have Pandoc installed and can you run PowerShell on Windows?"]

\* RelationalController.policy_for_pdf_request
policy_for_pdf_request(tw, th, brief_path_md, engine) ==
    LET has_windows == hypothesis(tw, th, "Windows")
        has_pwsh    == hypothesis(tw, th, "PowerShell")
        has_pandoc  == hypothesis(tw, th, "PandocInstalled")
    IN  IF has_windows /\ has_pwsh /\ has_pandoc
        THEN [assumption |-> "Windows + PowerShell + Pandoc present",
              action     |-> "Provide direct conversion command",
              command    |-> "pandoc \"" \o brief_path_md \o "\" -o \""
                             \o StripLast3(brief_path_md) \o ".pdf\" --pdf-engine="
                             \o engine]
        ELSE IF has_windows /\ has_pwsh /\ ~has_pandoc
        THEN [assumption |-> "Windows + PowerShell; Pandoc uncertain",
              action     |-> "Offer install path then conversion command",
              command    |-> "winget install Pandoc.Pandoc"]
        ELSE [assumption |-> "Environment uncertain",
              action     |-> "Ask one clarifying question to establish environment",
              command    |-> "Do you have Pandoc installed and can you run PowerShell on Windows?"]

(***************************************************************************)
(* The demo's literals (demo_environment_awareness).                       *)
(***************************************************************************)
DemoDecay == <<9, 1>>
DemoThreshold == <<6, 1>>
DemoPath ==
    "C:\\Users\\Robin_B_Macomber\\ANGEL_ML\\ANGEL.AI_Business\\ANGEL_System_Brief.md"

\* arguments of a free caller's policy requests; "xelatex" is the default
Paths == {"brief.md", "md"}
Engines == {"xelatex", "tectonic"}

\* the keys and the value a caller writes into a mapping it was handed: 9.9
MutateKeys == {"Windows"}
CallerValue == <<99, 1>>

\* what the last call handed back to the caller, with its Python type
Returned(kind, val) == [kind |-> kind, val |-> val]
None == Returned("NoneType", "None")

(***************************************************************************)
(* State after construction: EnvironmentStateTracker(decay, threshold) by  *)
(* a free caller, or by the demo with its own two literals.                *)
(***************************************************************************)
Constructed(decays) ==
    /\ token_weights = <<>>
    /\ ret = None
    /\ nObs = 0
    /\ passes = 0
    /\ touched = {}
    /\ \/ pc = "free" /\ decay \in decays /\ threshold \in ThresholdSet
       \/ pc = "turn1" /\ decay = DemoDecay /\ threshold = DemoThreshold

Init == Constructed(DecaySet)

\* update_weights on this store stays within the digits of the model
RECURSIVE CanUpdate(_, _, _, _)
CanUpdate(tw, dec, tokens, intensity) ==
    IF tokens = <<>> THEN TRUE
    ELSE LET t == Head(tokens)
             prev == DictGet(tw, t, Zero)
         IN  /\ FitsMul(prev, dec)
             /\ FitsAdd(Mul(prev, dec), intensity)
             /\ CanUpdate(DictSet(tw, t, Add(Mul(prev, dec), intensity)),
                          dec, Tail(tokens), intensity)

CanDecay(tw, dec) == \A i \in 1..Len(tw) : FitsMul(tw[i][2], dec)

\* env.observe(tokens, intensity)
observe(tokens, intensity) ==
    /\ pc = "free"
    /\ nObs < MaxObserve
    /\ nObs' = nObs + 1
    /\ touched' = {tokens[i] : i \in 1..Len(tokens)}
    /\ ret' = None
    /\ CanUpdate(token_weights, decay, tokens, intensity)
    /\ token_weights' = update_weights(token_weights, decay, tokens, intensity)
    /\ UNCHANGED <<decay, threshold, pc, passes>>

\* env.mem.decay_weights()
DecayCall ==
    /\ pc = "free"
    /\ ret' = None
    /\ touched' = {}
    /\ CanDecay(token_weights, decay)
    /\ token_weights' = decay_weights(token_weights, decay)
    /\ UNCHANGED <<decay, threshold, nObs, pc>>

DecayPass == DecayCall /\ UNCHANGED passes

\* env.hypothesis(key)
Hypothesis(key) ==
    /\ pc = "free"
    /\ ret' = Returned("bool", hypothesis(token_weights, threshold, key))
    /\ touched' = {}
    /\ UNCHANGED <<decay, threshold, token_weights, nObs, pc, passes>>

\* ctrl.policy_for_pdf_request(path, engine)
Policy(path, engine) ==
    /\ pc = "free"
    /\ ret' = Returned("decision",
                      policy_for_pdf_request(token_weights, threshold, path, engine))
    /\ touched' = {}
    /\ UNCHANGED <<decay, threshold, token_weights, nObs, pc, passes>>

\* env.mem.get_weights()
GetWeights ==
    /\ pc = "free"
    /\ ret' = Returned("dict", get_weights(token_weights))
    /\ touched' = {}
    /\ UNCHANGED <<decay, threshold, token_weights, nObs, pc, passes>>

\* env.to_json()
ToJson ==
    /\ pc = "free"
    /\ ret' = Returned("str", to_json(token_weights))
    /\ touched' = {}
    /\ UNCHANGED <<decay, threshold, token_weights, nObs, pc, passes>>

\* the caller writes snapshot[key] = 9.9 into the dict get_weights handed
\* out; the write reaches token_weights only if that dict is the store's own
CallerMutate(key) ==
    /\ pc = "free"
    /\ ret.kind = "dict"
    /\ ret' = [ret EXCEPT !.val.items = DictSet(ret.val.items, key, CallerValue)]
    /\ token_weights' = IF ret.val.aliased THEN ret'.val.items ELSE token_weights
    /\ touched' = {}
    /\ UNCHANGED <<decay, threshold, nObs, pc, passes>>

\* env.threshold = th
SetThreshold(th) ==
    /\ pc = "free"
    /\ th # threshold
    /\ threshold' = th
    /\ ret' = None
    /\ touched' = {}
    /\ UNCHANGED <<decay, token_weights, nObs, pc, passes>>

(***************************************************************************)
(* demo_environment_awareness, one action per statement.                   *)
(***************************************************************************)
DemoObserve(at, tokens, intensity, next) ==
    /\ pc = at
    /\ token_weights' = update_weights(token_weights, decay, tokens, intensity)
    /\ ret' = None
    /\ pc' = next
    /\ touched' = {tokens[i] : i \in 1..Len(tokens)}
    /\ UNCHANGED <<decay, threshold, nObs, passes>>

DemoTurn1 == DemoObserve("turn1", <<"Windows", "PowerShell">>, <<7, 1>>, "turn2")
DemoTurn2 ==
    DemoObserve("turn2", <<"PandocInstalled", "PDFExportSuccess">>, <<8, 1>>, "turn3")
DemoTurn3 == DemoObserve("turn3", <<"PowerShell">>, <<6, 1>>, "decide")

DemoDecide ==
    /\ pc = "decide"
    /\ ret' = Returned("decision",
                      policy_for_pdf_request(token_weights, threshold, DemoPath, "xelatex"))
    /\ pc' = "return"
    /\ touched' = {}
    /\ UNCHANGED <<decay, threshold, token_weights, nObs, passes>>

DemoReturn ==
    /\ pc = "return"
    /\ ret' = Returned("demo", [env_state |-> json_loads(to_json(token_weights)),
                                policy_decision |-> ret.val])
    /\ pc' = "done"
    /\ touched' = {}
    /\ UNCHANGED <<decay, threshold, token_weights, nObs, passes>>

Next ==
    \/ \E tokens \in Batches, intensity \in Intensities : observe(tokens, intensity)
    \/ DecayPass
    \/ \E key \in Tokens : Hypothesis(key)
    \/ \E path \in Paths, engine \in Engines : Policy(path, engine)
    \/ GetWeights
    \/ ToJson
    \/ \E key \in MutateKeys : CallerMutate(key)
    \/ \E th \in ThresholdSet : SetThreshold(th)
    \/ DemoTurn1
    \/ DemoTurn2
    \/ DemoTurn3
    \/ DemoDecide
    \/ DemoReturn

Spec == Init /\ [][Next]_vars

(***************************************************************************)
(* The store alone: a free caller that only observes and decays.  The      *)
(* queries change no weight, so these are the stores of Spec's free caller. *)
(***************************************************************************)
StoreInit == Constructed(DecaySet) /\ pc = "free"

StoreNext ==
    \/ \E tokens \in Batches, intensity \in Intensities : observe(tokens, intensity)
    \/ DecayPass

StoreSpec == StoreInit /\ [][StoreNext]_vars

(***************************************************************************)
(* A caller that keeps calling decay_weights: the decay pass is always     *)
(* enabled here (a factor with numerator 1 adds no digit), so weak         *)
(* fairness says exactly that it is called again and again.                *)
(***************************************************************************)
\* the repeating caller's decay factors: 0.01, 0.1 and 1.0
LiveDecaySet == {<<1, 2>>, <<1, 1>>, One}

LiveInit == Constructed(LiveDecaySet) /\ pc = "free"

\* one more of the repeated calls of decay_weights
RepeatedDecayPass == DecayCall /\ passes' = 1 - passes

LiveNext ==
    \/ \E tokens \in Batches, intensity \in Intensities : observe(tokens, intensity)
    \/ RepeatedDecayPass

LiveSpec == LiveInit /\ [][LiveNext]_vars /\ WF_vars(RepeatedDecayPass)

(***************************************************************************)
(* Properties.                                                             *)
(***************************************************************************)
\* the store's current weight for a key, 0.0 when the key is absent
W(key) == DictGet(token_weights, key, Zero)

IsObserve == \E tokens \in Batches, intensity \in Intensities : observe(tokens, intensity)
IsDemoObserve == DemoTurn1 \/ DemoTurn2 \/ DemoTurn3

\* C1: in every reachable state every stored weight is >= 0 (n / 10^k >= 0
\* exactly when n >= 0).
C1_WeightsNonNegative ==
    \A i \in 1..Len(token_weights) : token_weights[i][2][1] >= 0

\* a state after two observations and a decay pass: some weight lies below
\* the smallest intensity
C1_Witness ==
    /\ nObs >= 2
    /\ \E i \in 1..Len(token_weights) : Less(token_weights[i][2], <<6, 1>>)

\* the three hypotheses the policy reads, taken from the store directly
H(key) == GreaterEq(W(key), threshold)

\* the three fixed templates
DirectCommand(path, engine) ==
    [assumption |-> "Windows + PowerShell + Pandoc present",
     action     |-> "Provide direct conversion command",
     command    |-> "pandoc \"" \o path \o "\" -o \"" \o StripLast3(path)
                    \o ".pdf\" --pdf-engine=" \o engine]
InstallInstruction ==
    [assumption |-> "Windows + PowerShell; Pandoc uncertain",
     action     |-> "Offer install path then conversion command",
     command    |-> "winget install Pandoc.Pandoc"]
ClarifyingQuestion ==
    [assumption |-> "Environment uncertain",
     action     |-> "Ask one clarifying question to establish environment",
     command    |-> "Do you have Pandoc installed and can you run PowerShell on Windows?"]

\* the decision table, first matching row
TableRow(path, engine) ==
    CASE H("Windows") /\ H("PowerShell") /\ H("PandocInstalled")
           -> DirectCommand(path, engine)
      [] H("Windows") /\ H("PowerShell") /\ ~H("PandocInstalled")
           -> InstallInstruction
      [] OTHER -> ClarifyingQuestion

\* the requests the model makes
Requests == (Paths \X Engines) \cup {<<DemoPath, "xelatex">>}

\* C2: a decision the policy returned is the template of the first matching
\* row of the table over the hypotheses for Windows, PowerShell and
\* PandocInstalled: the direct command for (true, true, true), the install
\* instruction for (true, true, false), the clarifying question for the six
\* other rows.  (Every later call replaces ret, so a decision in ret was
\* taken on the store and threshold of the same state.)
C2_DecisionTable ==
    ret.kind = "decision" =>
        /\ \E r \in Requests : ret.val = TableRow(r[1], r[2])
        /\ ret.val = ClarifyingQuestion <=>
              ~(H("Windows") /\ H("PowerShell"))
        /\ ret.val = InstallInstruction <=>
              (H("Windows") /\ H("PowerShell") /\ ~H("PandocInstalled"))

\* a decision returned on one of the six other rows: Windows and Pandoc
\* believed, PowerShell not
C2_Witness ==
    /\ ret.kind = "decision"
    /\ H("Windows") /\ ~H("PowerShell") /\ H("PandocInstalled")
    /\ ret.val = ClarifyingQuestion

C8_DemoScenario ==
    /\ pc \in {"turn1", "turn2", "turn3", "decide", "return", "done"}
         => decay = <<9, 1>> /\ threshold = <<6, 1>>
    /\ pc = "turn2"
         => AsMapping(token_weights) =
              {<<"Windows", <<7, 1>>>>, <<"PowerShell", <<7, 1>>>>}
    /\ pc \in {"decide", "return", "done"}
         => /\ AsMapping(token_weights) =
                 { <<"Windows", <<7, 1>>>>, <<"PowerShell", <<123, 2>>>>,
                   <<"PandocInstalled", <<8, 1>>>>, <<"PDFExportSuccess", <<8, 1>>>> }
            /\ H("Windows") /\ H("PowerShell") /\ H("PandocInstalled")
    /\ pc = "return"
         => /\ ret.val.action = "Provide direct conversion command"
            /\ ret.val = DirectCommand(DemoPath, "xelatex")
    /\ pc = "done"
         => ret.val.policy_decision.action = "Provide direct conversion command"

\* the demo has returned
C8_Witness == pc = "done" /\ ret.kind = "demo"

\* the weight of a key after the step
Wn(key) == DictGet(token_weights', key, Zero)

\* the tokens of a list, and how often a token is listed
TokenSet(tokens) == {tokens[i] : i \in 1..Len(tokens)}
Count(tokens, t) == Cardinality({i \in 1..Len(tokens) : tokens[i] = t})

\* w * decay + intensity, applied n times
RECURSIVE Folded(_, _, _)
Folded(w, intensity, n) ==
    IF n = 0 THEN w ELSE Folded(Add(Mul(w, decay), intensity), intensity, n - 1)

\* the store holds X alone with weight I right after update({X}, I) on a
\* fresh store, and update({X}, I) is called again
SecondOfTwo(tokens, intensity) ==
    /\ Len(tokens) = 1
    /\ nObs = 1
    /\ touched = {tokens[1]}
    /\ token_weights = <<<<tokens[1], intensity>>>>

C6_DecayPassPrunes ==
    [][ DecayCall =>
          /\ \A t \in Tokens :
               /\ t \in Keys(token_weights') <=>
                    (t \in Keys(token_weights) /\ ~Less(Mul(W(t), decay), Epsilon))
               /\ t \in Keys(token_weights') => Wn(t) = Mul(W(t), decay)
          /\ \A i \in 1..Len(token_weights') :
               ~Less(token_weights'[i][2], Epsilon) ]_vars

\* after a pass with decay 0.01 that left Windows at exactly 1e-6 beside a
\* younger PowerShell entry: the next pass removes Windows alone
C6_Witness ==
    /\ touched = {}
    /\ token_weights = <<<<"Windows", Epsilon>>, <<"PowerShell", <<1, 2>>>>>>

\* C7: the mapping changes only in update and decay-pass steps; the decay
\* parameter never changes; the threshold changes only when the caller
\* sets it, and no weight changes with it; a caller writing into the
\* mapping get_weights returned leaves the store's mapping alone.
C7_Frame ==
    [][ /\ token_weights' # token_weights => IsObserve \/ IsDemoObserve \/ DecayCall
        /\ decay' = decay
        /\ threshold' # threshold =>
             (\E th \in ThresholdSet : SetThreshold(th)) /\ token_weights' = token_weights
        /\ (\E key \in MutateKeys : CallerMutate(key)) => token_weights' = token_weights
      ]_vars

\* the caller has written into the snapshot of a non-empty store and the
\* store does not show the write
C7_Witness ==
    /\ ret.kind = "dict"
    /\ token_weights # <<>>
    /\ DictGet(ret.val.items, "Windows", Zero) = CallerValue
    /\ W("Windows") # CallerValue

TwoUpdates(tw, x, i1, i2) ==
    DictGet(update_weights(update_weights(tw, decay, <<x>>, i1), decay, <<x>>, i2),
            x, Zero)

CanTwoUpdates(tw, x, i1, i2) ==
    /\ CanUpdate(tw, decay, <<x>>, i1)
    /\ CanUpdate(update_weights(tw, decay, <<x>>, i1), decay, <<x>>, i2)

\* two different intensities
IntensityPairs == {p \in Intensities \X Intensities : p[1] # p[2]}

ListingPairs ==
    {<<<<"Windows", "PowerShell">>, <<"PowerShell", "Windows">>>>,
     <<<<"Windows", "Windows", "PowerShell">>, <<"Windows", "PowerShell", "Windows">>>>,
     <<<<"Windows", "Windows", "PowerShell">>, <<"PowerShell", "Windows", "Windows">>>>,
     <<<<"Windows", "PowerShell", "Windows">>, <<"PowerShell", "Windows", "Windows">>>>,
     <<<<"Windows", "PowerShell", "PowerShell">>, <<"PowerShell", "Windows", "PowerShell">>>>,
     <<<<"Windows", "PowerShell", "PowerShell">>, <<"PowerShell", "PowerShell", "Windows">>>>,
     <<<<"PowerShell", "Windows", "PowerShell">>, <<"PowerShell", "PowerShell", "Windows">>>>}

\* from this store, some batch has two listings whose updates give
\* different mappings
OrderChangesMapping ==
    \E p \in ListingPairs, intensity \in Intensities :
        /\ CanUpdate(token_weights, decay, p[1], intensity)
        /\ CanUpdate(token_weights, decay, p[2], intensity)
        /\ AsMapping(update_weights(token_weights, decay, p[1], intensity))
             # AsMapping(update_weights(token_weights, decay, p[2], intensity))

\* C10 as stated: the order in which one batch lists its tokens changes the
\* resulting mapping.
C10_AsStated == OrderChangesMapping

\* C10, amended: the order in which one batch lists its tokens does not
\* change the resulting token-to-weight mapping: from every reachable store,
\* any two listings of the same batch give equal mappings.
C10_OrderWithinBatchIrrelevant == ~OrderChangesMapping

\* one update listed PowerShell before Windows on a fresh store (the dict
\* keeps that insertion order; the mapping is that of the other listing)
C10_Witness ==
    /\ nObs = 1
    /\ Len(token_weights) = 2
    /\ token_weights[1][1] = "PowerShell"
    /\ token_weights[2][1] = "Windows"
    /\ AsMapping(token_weights) =
         AsMapping(update_weights(<<>>, decay, <<"Windows", "PowerShell">>,
                                  token_weights[1][2]))

====
